---- MODULE Spec2Model ----
(***************************************************************************)
(* Evaluation engine of the ads dashboard: metric derivation               *)
(* (lib/metrics.ts), confidence intervals (lib/confidence.ts), benchmark   *)
(* scoring and the recommendation decision list (lib/recommendations.ts).  *)
(*                                                                         *)
(* A JavaScript number is modelled as an exact rational [n, d] in lowest   *)
(* terms with d > 0; d = 0 is NaN.  Square roots (confidence.ts) are       *)
(* taken in fixed point.                                                   *)
(***************************************************************************)
EXTENDS Integers, Sequences, FiniteSets, TLC

VARIABLES raw, frontEndPrice, campaignSpend, metrics, recommendation, prev, pc,
          adKpis, probe, classification, batch, sync

vars == <<raw, frontEndPrice, campaignSpend, metrics, recommendation, prev, pc, adKpis, probe,
          classification, batch, sync>>

(***************************************************************************)
(* Numbers                                                                 *)
(***************************************************************************)
Abs(i) == IF i < 0 THEN -i ELSE i

RECURSIVE GCD(_, _)
GCD(a, b) == IF b = 0 THEN a ELSE GCD(b, a % b)

NaN == [n |-> 0, d |-> 0]

IsNaN(x) == x.d = 0

\* the rational n/d in lowest terms
Q(n, d) ==
    IF d = 0 THEN NaN
    ELSE LET g == GCD(Abs(n), Abs(d))
             s == IF d < 0 THEN -1 ELSE 1
         IN  [n |-> s * (n \div g), d |-> s * (d \div g)]

R(i) == [n |-> i, d |-> 1]

Add(a, b) == IF IsNaN(a) \/ IsNaN(b) THEN NaN ELSE Q(a.n * b.d + b.n * a.d, a.d * b.d)

Sub(a, b) == IF IsNaN(a) \/ IsNaN(b) THEN NaN ELSE Q(a.n * b.d - b.n * a.d, a.d * b.d)

Mul(a, b) == IF IsNaN(a) \/ IsNaN(b) THEN NaN ELSE Q(a.n * b.n, a.d * b.d)

\* callers guard the denominator; 0/0 is NaN
Div(a, b) == IF IsNaN(a) \/ IsNaN(b) THEN NaN ELSE Q(a.n * b.d, a.d * b.n)

\* comparisons: false as soon as one side is NaN, as in JavaScript
Lt(a, b) == ~IsNaN(a) /\ ~IsNaN(b) /\ a.n * b.d < b.n * a.d

Le(a, b) == ~IsNaN(a) /\ ~IsNaN(b) /\ a.n * b.d <= b.n * a.d

Gt(a, b) == Lt(b, a)

Ge(a, b) == Le(b, a)

\* Math.max / Math.min: NaN as soon as one argument is NaN
MathMax(a, b) == IF IsNaN(a) \/ IsNaN(b) THEN NaN ELSE IF Lt(a, b) THEN b ELSE a

MathMin(a, b) == IF IsNaN(a) \/ IsNaN(b) THEN NaN ELSE IF Lt(b, a) THEN b ELSE a

\* floor(n / d * 10^k) by long division, one decimal digit at a time
RECURSIVE Pow10(_)
Pow10(k) == IF k = 0 THEN 1 ELSE 10 * Pow10(k - 1)

RECURSIVE Scaled(_, _, _)
Scaled(n, d, k) ==
    IF k = 0 THEN n \div d
    ELSE (n \div d) * Pow10(k) + Scaled((n % d) * 10, d, k - 1)

\* x truncated to two decimal places (fixed-point money amount)
Fix(x) == IF IsNaN(x) THEN NaN ELSE Q(Scaled(x.n, x.d, 2), 100)

\* largest r with r * r <= x, by bisection on lo..hi
RECURSIVE ISqrtIn(_, _, _)
ISqrtIn(x, lo, hi) ==
    IF lo >= hi THEN lo
    ELSE LET mid == (lo + hi + 1) \div 2
         IN  IF mid * mid <= x THEN ISqrtIn(x, mid, hi) ELSE ISqrtIn(x, lo, mid - 1)

ISqrt(x) == ISqrtIn(x, 0, 46340)

\* Math.sqrt, truncated to two decimal places
Sqrt(x) ==
    IF IsNaN(x) \/ x.n < 0 THEN NaN
    ELSE Q(ISqrt(Scaled(x.n, x.d, 4)), 100)

\* Number.prototype.toFixed(digits): the decimal the string denotes
\* (round half up on the magnitude)
ToFixed(x, digits) ==
    IF IsNaN(x) THEN NaN
    ELSE LET p == Pow10(digits)
             m == (2 * Abs(x.n) * p + x.d) \div (2 * x.d)
         IN  Q((IF x.n < 0 THEN -1 ELSE 1) * m, p)

\* null (hookRate / holdRate of an entity without video)
Null == [n |-> 0, d |-> -1]

IsNull(x) == x.d = -1

(***************************************************************************)
(* Strings of the reporting API and parseFloat                             *)
(***************************************************************************)
DigitChars == <<"0", "1", "2", "3", "4", "5", "6", "7", "8", "9">>

IsDigit(c) == \E i \in 1..10 : DigitChars[i] = c

DigitVal(c) == (CHOOSE i \in 1..10 : DigitChars[i] = c) - 1

\* number of consecutive digits of s from position i on
RECURSIVE DigitRun(_, _)
DigitRun(s, i) ==
    IF i > Len(s) \/ ~IsDigit(s[i]) THEN 0 ELSE 1 + DigitRun(s, i + 1)

\* value of the len digits of s that start at position i
RECURSIVE DigitsValue(_, _, _)
DigitsValue(s, i, len) ==
    IF len = 0 THEN 0
    ELSE 10 * DigitsValue(s, i, len - 1) + DigitVal(s[i + len - 1])

\* parseFloat on a string given as its sequence of characters: optional
\* sign, digits, optional fraction; parsing stops at the first other
\* character, and a string with no leading number is NaN
\* number of fraction digits when position dot of s holds a decimal point
FractionLen(s, dot) ==
    IF dot <= Len(s) /\ s[dot] = "." THEN DigitRun(s, dot + 1) ELSE 0

\* the number with il integer digits from position st and fl fraction digits
Magnitude(s, st, il, fl) ==
    IF il = 0 /\ fl = 0 THEN NaN
    ELSE Add(R(DigitsValue(s, st, il)),
             Q(DigitsValue(s, st + il + 1, fl), Pow10(fl)))

ParseDigits(s, st, il) == Magnitude(s, st, il, FractionLen(s, st + il))

\* the unsigned number that starts at position st
ParseUnsigned(s, st) == ParseDigits(s, st, DigitRun(s, st))

ParseFloat(s) ==
    IF Len(s) > 0 /\ s[1] = "-"
    THEN Sub(R(0), ParseUnsigned(s, 2))
    ELSE ParseUnsigned(s, 1)

\* the decimal string the API sends for a count or a whole amount
RECURSIVE Str(_)
Str(i) == IF i < 10 THEN <<DigitChars[i + 1]>> ELSE Str(i \div 10) \o <<DigitChars[(i % 10) + 1]>>

\* JSON values of a snapshot field
JNum(x) == [t |-> "number", v |-> x]

JStr(s) == [t |-> "string", v |-> s]

JUndef == [t |-> "undefined"]

\* an array of [action_type, value] entries
JArr(a) == [t |-> "array", v |-> a]

(***************************************************************************)
(* lib/meta-fields.ts                                                      *)
(***************************************************************************)
ACTION_TYPES ==
    [linkClick      |-> "link_click",
     purchase       |-> "offsite_conversion.custom.866343756407498",
     addToCart      |-> "offsite_conversion.custom.882491937726061",
     pixelPurchase  |-> "offsite_conversion.fb_pixel_purchase",
     pixelAddToCart |-> "offsite_conversion.fb_pixel_add_to_cart",
     video3sView    |-> "video_view"]

\* index of the first entry of actions with the given type, 0 if none
FindAction(actions, actionType) ==
    IF \E i \in 1..Len(actions) : actions[i].action_type = actionType
    THEN CHOOSE i \in 1..Len(actions) :
            /\ actions[i].action_type = actionType
            /\ \A j \in 1..(i - 1) : actions[j].action_type # actionType
    ELSE 0

\* found ? parseFloat(found.value) : 0, for the index of found (0 if none)
ValueAt(actions, i) == IF i # 0 THEN ParseFloat(actions[i].value) ELSE R(0)

\* actions is JUndef or a JArr
extractAction(actions, actionType) ==
    IF actions.t = "undefined" THEN R(0)
    ELSE ValueAt(actions.v, FindAction(actions.v, actionType))

(***************************************************************************)
(* lib/metrics.ts                                                          *)
(***************************************************************************)
\* parseFloat(val) || 0 : NaN and 0 are falsy
OrZero(x) == IF IsNaN(x) \/ x.n = 0 THEN R(0) ELSE x

\* variant: parseFloat(val) without the || 0
toNumUnguarded(val) ==
    IF val.t = "number" THEN val.v
    ELSE IF val.t = "string" THEN ParseFloat(val.v)
    ELSE NaN

toNum(val) ==
    IF val.t = "number" THEN val.v
    ELSE IF val.t = "string" THEN OrZero(ParseFloat(val.v))
    ELSE R(0)

\* val > 0 ? val : extractAction(actions, fallback)
PositiveOr(val, actions, fallback) ==
    IF Gt(val, R(0)) THEN val ELSE extractAction(actions, fallback)

extractWithFallback(actions, primary, fallback) ==
    PositiveOr(extractAction(actions, primary), actions, fallback)

extractVideoMetric(actions) ==
    IF actions.t # "array" THEN R(0)
    ELSE ValueAt(actions.v, FindAction(actions.v, "video_view"))

\* the first of the three lookups that found an entry
FirstFound(values, custom, pixel, omni) ==
    IF custom # 0 THEN ParseFloat(values[custom].value)
    ELSE IF pixel # 0 THEN ParseFloat(values[pixel].value)
    ELSE IF omni # 0 THEN ParseFloat(values[omni].value)
    ELSE R(0)

extractPurchaseRevenue(actionValues) ==
    IF actionValues.t = "undefined" THEN R(0)
    ELSE FirstFound(actionValues.v,
                    FindAction(actionValues.v, ACTION_TYPES.purchase),
                    FindAction(actionValues.v, ACTION_TYPES.pixelPurchase),
                    FindAction(actionValues.v, "omni_purchase"))

\* a ratio without its guard
Unguarded(denominator, ratio) == ratio

\* denominator > 0 ? ratio : 0
Guarded(denominator, ratio) == IF Gt(denominator, R(0)) THEN ratio ELSE R(0)

\* the returned object of computeMetrics, from its eleven local constants
DerivedMetrics(impressions, clicks, spend, reach, frequency, linkClicks, purchases, addToCart, purchaseValue, video3sViews, videoP50) ==
        [impressions   |-> impressions,
         clicks        |-> clicks,
         linkClicks    |-> linkClicks,
         spend         |-> spend,
         reach         |-> reach,
         frequency     |-> frequency,
         cpc           |-> Guarded(linkClicks, Div(spend, linkClicks)),
         ctr           |-> Guarded(impressions, Mul(Div(linkClicks, impressions), R(100))),
         cpm           |-> Guarded(impressions, Mul(Div(spend, impressions), R(1000))),
         hookRate      |-> IF Gt(video3sViews, R(0)) /\ Gt(impressions, R(0))
                           THEN Mul(Div(video3sViews, impressions), R(100)) ELSE Null,
         holdRate      |-> IF Gt(videoP50, R(0)) /\ Gt(video3sViews, R(0))
                           THEN Mul(Div(videoP50, video3sViews), R(100)) ELSE Null,
         addToCart     |-> addToCart,
         purchases     |-> purchases,
         purchaseValue |-> purchaseValue,
         cvr           |-> Guarded(linkClicks, Mul(Div(purchases, linkClicks), R(100))),
         atcRate       |-> Guarded(linkClicks, Mul(Div(addToCart, linkClicks), R(100))),
         atcToPurchase |-> Guarded(addToCart, Mul(Div(purchases, addToCart), R(100))),
         aov           |-> Guarded(purchases, Div(purchaseValue, purchases)),
         cpa           |-> Guarded(purchases, Div(spend, purchases)),
         roas          |-> Guarded(spend, Div(purchaseValue, spend)),
         video3sViews  |-> video3sViews,
         videoP50Views |-> videoP50]

computeMetrics(r) ==
    DerivedMetrics(toNum(r.impressions), toNum(r.clicks), toNum(r.spend),
                   toNum(r.reach), toNum(r.frequency),
                   extractAction(r.actions, ACTION_TYPES.linkClick),
                   extractWithFallback(r.actions, ACTION_TYPES.purchase,
                                       ACTION_TYPES.pixelPurchase),
                   extractWithFallback(r.actions, ACTION_TYPES.addToCart,
                                       ACTION_TYPES.pixelAddToCart),
                   extractPurchaseRevenue(r.action_values),
                   extractAction(r.actions, ACTION_TYPES.video3sView),
                   extractVideoMetric(r.video_p50_watched_actions))

(***************************************************************************)
(* lib/benchmarks.ts                                                       *)
(* target is <<t>> for a scalar target and <<low, high>> for a pair; the   *)
(* optional flags videoOnly and dynamic are FALSE when absent.  No entry   *)
(* of the table sets lowerIsBetter, so benchmark.lowerIsBetter is          *)
(* undefined for every benchmark.                                          *)
(***************************************************************************)
Benchmark(key, label, target, comparison, videoOnly, dynamic) ==
    [key |-> key, label |-> label, target |-> target, comparison |-> comparison,
     videoOnly |-> videoOnly, dynamic |-> dynamic, lowerIsBetter |-> "undefined"]

softBenchmarks ==
    << Benchmark("cpc", "CPC (Link Click)", <<Q(3, 2)>>, "less_than", FALSE, FALSE),
       Benchmark("ctr", "CTR (Link Click)", <<R(3)>>, "greater_than", FALSE, FALSE),
       Benchmark("cpm", "CPM", <<R(40), R(50)>>, "between", FALSE, FALSE),
       Benchmark("hookRate", "Hook Rate (3s View %)", <<R(50)>>, "greater_than", TRUE, FALSE),
       Benchmark("holdRate", "Hold Rate (p50 %)", <<R(25)>>, "greater_than", TRUE, FALSE),
       Benchmark("frequency", "Frequency", <<Q(3, 2)>>, "less_than", FALSE, FALSE) >>

hardBenchmarks ==
    << Benchmark("cvr", "CVR", <<R(3), R(5)>>, "between", FALSE, FALSE),
       Benchmark("atcRate", "ATC Rate", <<R(10)>>, "greater_than", FALSE, FALSE),
       Benchmark("atcToPurchase", "ATC -> Purchase", <<R(30)>>, "greater_than", FALSE, FALSE),
       Benchmark("cpa", "CPA", <<R(0)>>, "less_than", FALSE, TRUE) >>

\* variant: the halving is dropped
getCpaTargetNoHalf(price) == Mul(price, R(2))

\* frontEndPrice * 2 * 0.5
getCpaTarget(price) == Mul(Mul(price, R(2)), Q(1, 2))

(***************************************************************************)
(* lib/confidence.ts                                                       *)
(* Proportions are computed in fixed point with four decimal places        *)
(* (eight under the square root), money with two.                          *)
(***************************************************************************)
\* z = 1.96, the default of both interval functions
Z == Q(49, 25)

DegenerateCI == [lower |-> R(0), upper |-> R(0), center |-> R(0), confidence |-> "none"]

WidthConfidence(relativeWidth) ==
    IF Gt(relativeWidth, R(1)) THEN "low"
    ELSE IF Gt(relativeWidth, Q(1, 2)) THEN "medium"
    ELSE "high"

getProportionConfidence(trials, lower, upper, center) ==
    IF Lt(trials, R(100)) THEN "none"
    ELSE IF center = R(0) THEN "none"
    ELSE WidthConfidence(Div(Sub(upper, lower), center))

getMonetaryConfidence(count) ==
    IF Lt(count, R(10)) THEN "none"
    ELSE IF Lt(count, R(30)) THEN "low"
    ELSE IF Lt(count, R(100)) THEN "medium"
    ELSE "high"

\* x / y for a fixed-point integer x and a rational y > 0
FxDivBy(x, y) == (x * y.d) \div y.n

\* the rational x as a fixed-point integer with k decimal places
Fx(x, k) == Scaled(x.n, x.d, k)

\* 1 + z2 / trials
WilsonDenominator(trials) == 10000 + FxDivBy(Fx(Mul(Z, Z), 4), trials)

\* (p + z2 / (2 * trials)) / denominator
WilsonCenter(p, trials, denominator) ==
    ((p + FxDivBy(Fx(Mul(Z, Z), 4), Mul(R(2), trials))) * 10000) \div denominator

\* (p * (1 - p)) / trials + z2 / (4 * trials * trials), eight decimals
WilsonRadicand(p, trials) ==
    FxDivBy(p * (10000 - p), trials)
      + FxDivBy(FxDivBy(FxDivBy(Fx(Mul(Z, Z), 8), R(4)), trials), trials)

\* (z * Math.sqrt(radicand)) / denominator
WilsonMargin(radicand, denominator) ==
    (((Fx(Z, 4) * ISqrt(radicand)) \div 10000) * 10000) \div denominator

\* the returned object: Math.max(0, center - margin) * 100 and so on
WilsonBounds(trials, center, margin, radicand) ==
    LET lo == IF center - margin < 0 THEN 0 ELSE center - margin
        hi == IF center + margin > 10000 THEN 10000 ELSE center + margin
    IN  IF radicand < 0
        THEN [lower |-> NaN, upper |-> NaN, center |-> Q(center * 100, 10000),
              confidence |-> getProportionConfidence(trials, NaN, NaN, Q(center, 10000))]
        ELSE [lower      |-> Q(lo * 100, 10000),
              upper      |-> Q(hi * 100, 10000),
              center     |-> Q(center * 100, 10000),
              confidence |-> getProportionConfidence(trials, Q(lo, 10000), Q(hi, 10000),
                                                     Q(center, 10000))]

WilsonAround(p, trials, denominator, radicand) ==
    WilsonBounds(trials, WilsonCenter(p, trials, denominator),
                 WilsonMargin(radicand, denominator), radicand)

\* the interval around the observed proportion p
WilsonOf(p, trials) ==
    WilsonAround(p, trials, WilsonDenominator(trials), WilsonRadicand(p, trials))

wilsonScoreInterval(successes, trials) ==
    IF trials = R(0) THEN DegenerateCI
    ELSE IF IsNaN(successes) \/ IsNaN(trials)
    THEN [lower |-> NaN, upper |-> NaN, center |-> NaN,
          confidence |-> getProportionConfidence(trials, NaN, NaN, NaN)]
    ELSE WilsonOf(Fx(Div(successes, trials), 4), trials)

\* variant: the lower bound is not floored at 0
MonetaryBoundsUnfloored(mean, se, count) ==
    [lower |-> Sub(mean, Mul(Z, se)),
     upper |-> Add(mean, Mul(Z, se)),
     center |-> mean,
     confidence |-> getMonetaryConfidence(count)]

\* mean +/- z * se, floored at 0
MonetaryBounds(mean, se, count) ==
    [lower |-> MathMax(R(0), Sub(mean, Mul(Z, se))),
     upper |-> Add(mean, Mul(Z, se)),
     center |-> mean,
     confidence |-> getMonetaryConfidence(count)]

\* se = mean / Math.sqrt(count)
MonetaryAround(mean, count) == MonetaryBounds(mean, Fix(Div(mean, Sqrt(count))), count)

monetaryCI(total, count) ==
    IF count = R(0) THEN DegenerateCI
    ELSE MonetaryAround(Div(total, count), count)

\* (metrics as Record<string, number>).reach || 1
OrOne(x) == IF IsNaN(x) \/ x.n = 0 THEN R(1) ELSE x

getMetricCI(key, m) ==
    CASE key = "ctr"           -> wilsonScoreInterval(m.linkClicks, m.impressions)
      [] key = "cvr"           -> wilsonScoreInterval(m.purchases, m.linkClicks)
      [] key = "atcRate"       -> wilsonScoreInterval(m.addToCart, m.linkClicks)
      [] key = "atcToPurchase" -> wilsonScoreInterval(m.purchases, m.addToCart)
      [] key = "hookRate"      -> wilsonScoreInterval(m.video3sViews, m.impressions)
      [] key = "holdRate"      -> wilsonScoreInterval(m.videoP50Views, m.video3sViews)
      [] key = "cpc"           -> monetaryCI(m.spend, m.linkClicks)
      [] key = "cpa"           -> monetaryCI(m.spend, m.purchases)
      [] key = "aov"           -> monetaryCI(m.purchaseValue, m.purchases)
      [] key = "cpm"           -> monetaryCI(Mul(m.spend, R(1000)), m.impressions)
      [] key = "frequency"     -> monetaryCI(m.impressions, OrOne(m.reach))
      [] OTHER                 -> DegenerateCI

(***************************************************************************)
(* lib/recommendations.ts                                                  *)
(***************************************************************************)
\* benchmark.dynamic && key === "cpa" ? getCpaTarget(frontEndPrice) : benchmark.target
TargetOf(benchmark, price) ==
    IF benchmark.dynamic /\ benchmark.key = "cpa"
    THEN <<getCpaTarget(price)>> ELSE benchmark.target

\* the three-way between of the switch, shared by the variants below
BetweenVerdict(benchmark, ci, value, low, high) ==
        IF benchmark.lowerIsBetter = "true"
        THEN [passing            |-> Le(value, high),
              confidentlyPassing |-> Le(ci.upper, high),
              confidentlyFailing |-> Gt(ci.lower, high)]
        ELSE IF benchmark.lowerIsBetter = "false"
        THEN [passing            |-> Ge(value, low),
              confidentlyPassing |-> Ge(ci.lower, low),
              confidentlyFailing |-> Lt(ci.upper, low)]
        ELSE [passing            |-> Ge(value, low) /\ Le(value, high),
              confidentlyPassing |-> Ge(ci.lower, low) /\ Le(ci.upper, high),
              confidentlyFailing |-> Lt(ci.upper, low) \/ Gt(ci.lower, high)]

\* variant: the one-sided comparisons include the target
CompareInclusive(benchmark, ci, value, target) ==
        IF benchmark.comparison = "less_than"
        THEN [passing            |-> Le(value, target[1]),
              confidentlyPassing |-> Le(ci.upper, target[1]),
              confidentlyFailing |-> Ge(ci.lower, target[1])]
        ELSE IF benchmark.comparison = "greater_than"
        THEN [passing            |-> Ge(value, target[1]),
              confidentlyPassing |-> Ge(ci.lower, target[1]),
              confidentlyFailing |-> Le(ci.upper, target[1])]
        ELSE BetweenVerdict(benchmark, ci, value, target[1], target[2])

\* variant: the two one-sided cases are exchanged
CompareSwapped(benchmark, ci, value, target) ==
        IF benchmark.comparison = "greater_than"
        THEN [passing            |-> Lt(value, target[1]),
              confidentlyPassing |-> Lt(ci.upper, target[1]),
              confidentlyFailing |-> Gt(ci.lower, target[1])]
        ELSE IF benchmark.comparison = "less_than"
        THEN [passing            |-> Gt(value, target[1]),
              confidentlyPassing |-> Gt(ci.lower, target[1]),
              confidentlyFailing |-> Lt(ci.upper, target[1])]
        ELSE BetweenVerdict(benchmark, ci, value, target[1], target[2])

\* the switch on benchmark.comparison
Compare(benchmark, ci, value, target) ==
        IF benchmark.comparison = "less_than"
        THEN [passing            |-> Lt(value, target[1]),
              confidentlyPassing |-> Lt(ci.upper, target[1]),
              confidentlyFailing |-> Gt(ci.lower, target[1])]
        ELSE IF benchmark.comparison = "greater_than"
        THEN [passing            |-> Gt(value, target[1]),
              confidentlyPassing |-> Gt(ci.lower, target[1]),
              confidentlyFailing |-> Lt(ci.upper, target[1])]
        ELSE LET low == target[1]
                 high == target[2]
             IN  IF benchmark.lowerIsBetter = "true"
                 THEN [passing            |-> Le(value, high),
                       confidentlyPassing |-> Le(ci.upper, high),
                       confidentlyFailing |-> Gt(ci.lower, high)]
                 ELSE IF benchmark.lowerIsBetter = "false"
                 THEN [passing            |-> Ge(value, low),
                       confidentlyPassing |-> Ge(ci.lower, low),
                       confidentlyFailing |-> Lt(ci.upper, low)]
                 ELSE [passing            |-> Ge(value, low) /\ Le(value, high),
                       confidentlyPassing |-> Ge(ci.lower, low) /\ Le(ci.upper, high),
                       confidentlyFailing |-> Lt(ci.upper, low) \/ Gt(ci.lower, high)]

isBenchmarkPassing(benchmark, ci, value, price) ==
    Compare(benchmark, ci, value, TargetOf(benchmark, price))

\* metrics[key]
Field(m, key) ==
    CASE key = "cpc"           -> m.cpc
      [] key = "ctr"           -> m.ctr
      [] key = "cpm"           -> m.cpm
      [] key = "hookRate"      -> m.hookRate
      [] key = "holdRate"      -> m.holdRate
      [] key = "frequency"     -> m.frequency
      [] key = "cvr"           -> m.cvr
      [] key = "atcRate"       -> m.atcRate
      [] key = "atcToPurchase" -> m.atcToPurchase
      [] key = "cpa"           -> m.cpa

\* v ?? 0
OrZeroIfNull(v) == IF IsNull(v) THEN R(0) ELSE v

\* metrics[benchmark.key] ?? 0
MetricValue(m, key) == OrZeroIfNull(Field(m, key))

\* { benchmark, value, ci, ...isBenchmarkPassing(...) }
KpiEntry(benchmark, value, ci, r) ==
    [benchmark |-> benchmark, value |-> value, ci |-> ci,
     passing |-> r.passing, confidentlyPassing |-> r.confidentlyPassing,
     confidentlyFailing |-> r.confidentlyFailing]

KpiScored(benchmark, value, ci, price) ==
    KpiEntry(benchmark, value, ci, isBenchmarkPassing(benchmark, ci, value, price))

KpiResult(benchmark, m, price) ==
    KpiScored(benchmark, MetricValue(m, benchmark.key), getMetricCI(benchmark.key, m),
              price)

Map(f(_), s) == [i \in 1..Len(s) |-> f(s[i])]

\* variant: a video-only benchmark is skipped when its own metric is null
evaluateKpisSkipOwnNull(m, price) ==
    Map(LAMBDA b : KpiResult(b, m, price),
        SelectSeq(softBenchmarks \o hardBenchmarks,
                  LAMBDA b : ~(b.videoOnly /\ IsNull(Field(m, b.key)))))

evaluateKpis(m, price) ==
    LET allBenchmarks == softBenchmarks \o hardBenchmarks
        applicable    == SelectSeq(allBenchmarks,
                                   LAMBDA b : ~(b.videoOnly /\ IsNull(m.hookRate)))
    IN  Map(LAMBDA b : KpiResult(b, m, price), applicable)

\* the templates of the reasoning lines
LineStarvingShare == "Insufficient delivery: % of campaign spend ($ / $)"

LineStarvingAbsolute == "Insufficient delivery: $ spend, impressions"

LineSpent3x == "$ spent (> 3x CPA target) with 0 purchases"

LineSpent2x == "$ spent with 0 purchases across link clicks"

LineBadCpa == "purchases at $ CPA (> 2x target)"

LineUnprofitable == "purchases but ROAS is x (unprofitable)"

LineScale == "purchases at x ROAS, $ CPA"

LineNote == "Note: below target - may improve with optimization"

LineWatchPurchases == "purchases, x ROAS, $ CPA - accumulating data"

LineWatchNoPurchases == "$ spent, link clicks, 0 purchases - needs more data"

LineConcern == "Concern: below target"

\* one entry of Recommendation.reasoning: the template of the line, the
\* numbers it prints (after toFixed where the code formats them) and, for
\* the soft-KPI lines, the joined benchmark labels
Line(tag, args, labels) == [line |-> tag, args |-> args, labels |-> labels]

IsSoftKey(key) == \E i \in 1..Len(softBenchmarks) : softBenchmarks[i].key = key

\* kpis.filter(soft benchmark).filter(confidentlyFailing)
SoftFailing(kpis) ==
    SelectSeq(SelectSeq(kpis, LAMBDA k : IsSoftKey(k.benchmark.key)),
              LAMBDA k : k.confidentlyFailing)

Labels(kpis) == Map(LAMBDA k : k.benchmark.label, kpis)

\* an optional argument that was not passed
Absent == [n |-> 0, d |-> -2]

IsAbsent(x) == x.d = -2

\* campaignSpend && campaignSpend > 0 ? metrics.spend / campaignSpend : null
SpendShare(m, parentSpend) ==
    IF ~IsAbsent(parentSpend) /\ Gt(parentSpend, R(0))
    THEN Div(m.spend, parentSpend) ELSE Null

\* variant: a share of exactly 2% counts as starving
IsStarvingInclusive(m, parentSpend) ==
    LET spendShare == SpendShare(m, parentSpend)
    IN  IF ~IsNull(spendShare)
        THEN Le(spendShare, Q(2, 100))
        ELSE Lt(m.spend, R(3)) \/ Lt(m.impressions, R(100))

IsStarving(m, parentSpend) ==
    LET spendShare == SpendShare(m, parentSpend)
    IN  IF ~IsNull(spendShare)
        THEN Lt(spendShare, Q(2, 100))
        ELSE Lt(m.spend, R(3)) \/ Lt(m.impressions, R(100))

\* metrics.purchases > 0
HasPurchases(m) == Gt(m.purchases, R(0))

\* variant: spend of exactly 2x the target counts
Spent2xInclusive(m, cpaTarget) == Ge(m.spend, Mul(cpaTarget, R(2)))

Spent2x(m, cpaTarget) == Gt(m.spend, Mul(cpaTarget, R(2)))

\* variant: spend of exactly 3x the target counts
Spent3xInclusive(m, cpaTarget) == Ge(m.spend, Mul(cpaTarget, R(3)))

Spent3x(m, cpaTarget) == Gt(m.spend, Mul(cpaTarget, R(3)))

\* metrics.linkClicks >= 30
EnoughClicks(m) == Ge(m.linkClicks, R(30))

\* variant: a CPA of exactly 2x the target counts
LowVolumeBadCpaInclusive(m, cpaTarget) ==
    HasPurchases(m) /\ Lt(m.purchases, R(5)) /\ Ge(m.cpa, Mul(cpaTarget, R(2)))

LowVolumeBadCpa(m, cpaTarget) ==
    HasPurchases(m) /\ Lt(m.purchases, R(5)) /\ Gt(m.cpa, Mul(cpaTarget, R(2)))

\* variant: a ROAS of exactly 0.8 counts
ProvenUnprofitableInclusive(m) ==
    HasPurchases(m) /\ Ge(m.purchases, R(5)) /\ Le(m.roas, Q(8, 10))

ProvenUnprofitable(m) ==
    HasPurchases(m) /\ Ge(m.purchases, R(5)) /\ Lt(m.roas, Q(8, 10))

\* variant: a ROAS of exactly 1.0 does not count
ScaleRuleStrictRoas(m, cpaTarget) ==
    /\ HasPurchases(m) /\ Gt(m.roas, R(1))
    /\ Ge(m.purchases, R(3)) /\ Le(m.cpa, Mul(cpaTarget, Q(3, 2)))

\* variant: the minimum of three purchases is not required
ScaleRuleAnyPurchases(m, cpaTarget) ==
    /\ HasPurchases(m) /\ Ge(m.roas, R(1))
    /\ Le(m.cpa, Mul(cpaTarget, Q(3, 2)))

\* variant: three confidently failing soft KPIs block Scale
ScaleRuleSoftBlocked(m, cpaTarget) ==
    /\ HasPurchases(m) /\ Ge(m.roas, R(1))
    /\ Ge(m.purchases, R(3)) /\ Le(m.cpa, Mul(cpaTarget, Q(3, 2)))
    /\ Len(SoftFailing(evaluateKpis(m, cpaTarget))) < 3

ScaleRule(m, cpaTarget) ==
    /\ HasPurchases(m) /\ Ge(m.roas, R(1))
    /\ Ge(m.purchases, R(3)) /\ Le(m.cpa, Mul(cpaTarget, Q(3, 2)))

\* variant: the starving check runs after the kill rules
RuleOrderKillFirst ==
    <<"spent3x", "spent2x", "lowVolumeBadCpa", "provenUnprofitable", "starving",
      "scale", "watch">>

\* the if-statements of getRecommendation in program order; each returns
\* when its condition holds, and the last one is the unconditional tail
RuleOrder ==
    <<"starving", "spent3x", "spent2x", "lowVolumeBadCpa", "provenUnprofitable",
      "scale", "watch">>

Matches(rule, m, cpaTarget, parentSpend) ==
    CASE rule = "starving"           -> IsStarving(m, parentSpend)
      [] rule = "spent3x"            -> ~HasPurchases(m) /\ Spent3x(m, cpaTarget)
      [] rule = "spent2x"            -> ~HasPurchases(m) /\ Spent2x(m, cpaTarget)
                                          /\ EnoughClicks(m)
      [] rule = "lowVolumeBadCpa"    -> LowVolumeBadCpa(m, cpaTarget)
      [] rule = "provenUnprofitable" -> ProvenUnprofitable(m)
      [] rule = "scale"              -> ScaleRule(m, cpaTarget)
      [] rule = "watch"              -> TRUE

\* the first rule, in program order, whose condition holds
FirstMatch(m, cpaTarget, parentSpend) ==
    LET i == CHOOSE i \in 1..Len(RuleOrder) :
                /\ Matches(RuleOrder[i], m, cpaTarget, parentSpend)
                /\ \A j \in 1..(i - 1) : ~Matches(RuleOrder[j], m, cpaTarget, parentSpend)
    IN  RuleOrder[i]

ActionOf(rule) ==
    CASE rule = "starving" -> "Starving"
      [] rule \in {"spent3x", "spent2x", "lowVolumeBadCpa", "provenUnprofitable"} -> "Kill"
      [] rule = "scale"    -> "Scale"
      [] rule = "watch"    -> "Watch"

\* the line pushed when softFailing.length > 0
SoftLine(tag, kpis) ==
    IF Len(SoftFailing(kpis)) > 0
    THEN <<Line(tag, <<>>, Labels(SoftFailing(kpis)))>> ELSE <<>>

StarvingReasoning(m, parentSpend) ==
    LET spendShare == SpendShare(m, parentSpend)
    IN  << IF ~IsNull(spendShare)
           THEN Line(LineStarvingShare,
                     <<ToFixed(Mul(spendShare, R(100)), 1), ToFixed(m.spend, 2),
                       ToFixed(parentSpend, 2)>>, <<>>)
           ELSE Line(LineStarvingAbsolute,
                     <<ToFixed(m.spend, 2), m.impressions>>, <<>>) >>

ScaleReasoning(m, kpis) ==
    << Line(LineScale,
            <<m.purchases, ToFixed(m.roas, 2), ToFixed(m.cpa, 2)>>, <<>>) >>
    \o SoftLine(LineNote, kpis)

\* variant: the concern line is pushed before the context line
WatchReasoningConcernFirst(m, kpis) ==
    SoftLine(LineConcern, kpis)
    \o << IF HasPurchases(m)
          THEN Line(LineWatchPurchases,
                    <<m.purchases, ToFixed(m.roas, 2), ToFixed(m.cpa, 2)>>, <<>>)
          ELSE Line(LineWatchNoPurchases,
                    <<ToFixed(m.spend, 2), m.linkClicks>>, <<>>) >>

WatchReasoning(m, kpis) ==
    << IF HasPurchases(m)
       THEN Line(LineWatchPurchases,
                 <<m.purchases, ToFixed(m.roas, 2), ToFixed(m.cpa, 2)>>, <<>>)
       ELSE Line(LineWatchNoPurchases,
                 <<ToFixed(m.spend, 2), m.linkClicks>>, <<>>) >>
    \o SoftLine(LineConcern, kpis)

ReasoningOf(rule, m, cpaTarget, parentSpend, kpis) ==
    CASE rule = "starving" -> StarvingReasoning(m, parentSpend)
      [] rule = "spent3x"  ->
            << Line(LineSpent3x,
                    <<ToFixed(m.spend, 2), ToFixed(Mul(cpaTarget, R(3)), 0)>>, <<>>) >>
      [] rule = "spent2x"  ->
            << Line(LineSpent2x,
                    <<ToFixed(m.spend, 2), m.linkClicks>>, <<>>) >>
      [] rule = "lowVolumeBadCpa" ->
            << Line(LineBadCpa,
                    <<m.purchases, ToFixed(m.cpa, 2), ToFixed(Mul(cpaTarget, R(2)), 0)>>,
                    <<>>) >>
      [] rule = "provenUnprofitable" ->
            << Line(LineUnprofitable,
                    <<m.purchases, ToFixed(m.roas, 2)>>, <<>>) >>
      [] rule = "scale"    -> ScaleReasoning(m, kpis)
      [] rule = "watch"    -> WatchReasoning(m, kpis)

getRecommendation(m, price, parentSpend) ==
    LET cpaTarget == getCpaTarget(price)
        rule      == FirstMatch(m, cpaTarget, parentSpend)
        \* evaluated after the starving return only
        kpis      == evaluateKpis(m, price)
    IN  [action    |-> ActionOf(rule),
         reasoning |-> ReasoningOf(rule, m, cpaTarget, parentSpend, kpis)]

(***************************************************************************)
(* lib/winners.ts                                                          *)
(***************************************************************************)
\* kpis.filter((k) => k.confidentlyPassing).length
CountConfidentlyPassing(kpis) ==
    Cardinality({i \in 1..Len(kpis) : kpis[i].confidentlyPassing})

\* kpis.filter((k) => k.confidentlyFailing).length
CountConfidentlyFailing(kpis) ==
    Cardinality({i \in 1..Len(kpis) : kpis[i].confidentlyFailing})

\* kpis.filter((k) => k.passing).length
CountPassing(kpis) == Cardinality({i \in 1..Len(kpis) : kpis[i].passing})

\* hardKpis.filter((k) => k.confidentlyFailing).length, hardKpis being the
\* KPIs whose key is not a soft benchmark's
CountHardConfidentlyFailing(kpis) ==
    Cardinality({i \in 1..Len(kpis) :
                    ~IsSoftKey(kpis[i].benchmark.key) /\ kpis[i].confidentlyFailing})

\* kpis.some((k) => k.ci.confidence === "low" || k.ci.confidence === "medium")
HasLowOrMediumConfidence(kpis) ==
    \E i \in 1..Len(kpis) : kpis[i].ci.confidence \in {"low", "medium"}

\* variant: two confidently passing KPIs are enough
WinnerByKpisTwo(m, kpis) ==
    /\ CountConfidentlyPassing(kpis) >= 2
    /\ CountConfidentlyFailing(kpis) = 0
    /\ Gt(m.spend, R(20))

\* the second winner condition
WinnerByKpis(m, kpis) ==
    /\ CountConfidentlyPassing(kpis) >= 3
    /\ CountConfidentlyFailing(kpis) = 0
    /\ Gt(m.spend, R(20))

\* variant: the spend floor of a winner is applied
TrendingByKpisWinnerFloor(m, kpis) ==
    /\ CountPassing(kpis) >= 3
    /\ CountHardConfidentlyFailing(kpis) = 0
    /\ HasLowOrMediumConfidence(kpis)
    /\ Gt(m.spend, R(20))

\* the condition inside the Watch branch
TrendingByKpis(m, kpis) ==
    /\ CountPassing(kpis) >= 3
    /\ CountHardConfidentlyFailing(kpis) = 0
    /\ HasLowOrMediumConfidence(kpis)
    /\ Gt(m.spend, R(10))

\* the three returns of classifyAd in program order
AdClassification(m, action, kpis) ==
    IF action = "Scale" THEN "winner"
    ELSE IF WinnerByKpis(m, kpis) THEN "winner"
    ELSE IF action = "Watch" /\ TrendingByKpis(m, kpis) THEN "trending"
    ELSE "null"

\* { classification, recommendation, kpis }
Classified(m, rec, kpis) ==
    [classification |-> AdClassification(m, rec.action, kpis),
     recommendation |-> rec,
     kpis           |-> kpis]

classifyAd(m, price, parentSpend) ==
    Classified(m, getRecommendation(m, price, parentSpend), evaluateKpis(m, price))

(***************************************************************************)
(* The evaluation of one entity, as the campaign page runs it              *)
(* (app/[campaignId]/page.tsx): a snapshot arrives from the reporting API, *)
(* computeMetrics derives its metrics, getRecommendation decides.  A later *)
(* report for the same entity (same spend and conversions, other delivery  *)
(* counters) is evaluated again; prev keeps the evaluation before it.      *)
(***************************************************************************)
\* largest purchase count of an enumerated snapshot
MaxPurchases == 6

SpendVals == {0, 3, 5, 40, 140, 210, 300, 420, 560}

ImpressionVals == {80, 100}

LinkClickVals == {29, 30}

\* a high-delivery entity whose soft KPIs all meet their targets
HighDelivery == [impressions |-> 7000, spend |-> 300, linkClicks |-> 250]

\* revenue per dollar of spend, in tenths
RoasTenths == {6, 8, 10, 18}

\* front-end price of the evaluation: the page's default FRONT_END_PRICE
\* (69.95) and a configured price of 70
PriceVals == {Q(6995, 100), R(70)}

\* parent-scope spend passed by the caller: none, 0 (no campaign insights), a total
ParentSpendVals == {Absent, R(0), R(2000)}

\* delivery counters that no economic rule reads: reach as a divisor of the
\* impressions, 3-second views and p50 views as a percentage of the impressions
DeliveryVals ==
    { [reachDiv |-> 1,  v3sPct |-> 0,  p50Pct |-> 0],
      [reachDiv |-> 10, v3sPct |-> 10, p50Pct |-> 0],
      [reachDiv |-> 1,  v3sPct |-> 80, p50Pct |-> 40] }

\* a decimal string with one fractional digit, for a value given in tenths
StrTenths(t) == Str(t \div 10) \o <<".">> \o Str(t % 10)

Entry(type, value) == [action_type |-> type, value |-> value]

\* the API lists an action only when its count is positive
Opt(type, count) == IF count > 0 THEN <<Entry(type, Str(count))>> ELSE <<>>

Snapshot(impressions, spend, linkClicks, purchases, roasTenths, dv) ==
    LET reach == impressions \div dv.reachDiv
        v3s   == (impressions * dv.v3sPct) \div 100
        p50   == (impressions * dv.p50Pct) \div 100
    IN  [impressions |-> JStr(Str(impressions)),
         clicks      |-> JStr(Str(linkClicks)),
         spend       |-> JStr(Str(spend)),
         reach       |-> JStr(Str(reach)),
         frequency   |-> JStr(StrTenths(dv.reachDiv * 10)),
         actions     |-> JArr(Opt(ACTION_TYPES.linkClick, linkClicks)
                              \o Opt(ACTION_TYPES.purchase, purchases)
                              \o Opt(ACTION_TYPES.video3sView, v3s)),
         action_values |->
             IF purchases > 0
             THEN JArr(<<Entry(ACTION_TYPES.purchase, StrTenths(spend * roasTenths))>>)
             ELSE JUndef,
         video_p50_watched_actions |->
             IF p50 > 0 THEN JArr(<<Entry("video_view", Str(p50))>>) ELSE JUndef]

\* the snapshot with its add-to-cart count listed among the actions
WithAddToCart(r, addToCart) ==
    [r EXCEPT !.actions = JArr(@.v \o Opt(ACTION_TYPES.addToCart, addToCart))]

NoPrev == [set |-> FALSE]

NoValue == [set |-> FALSE]

Init ==
    /\ \E purchases \in 0..MaxPurchases, roasTenths \in RoasTenths, dv \in DeliveryVals :
            /\ purchases = 0 => roasTenths = 10
            /\ \/ \E impressions \in ImpressionVals, spend \in SpendVals,
                      linkClicks \in LinkClickVals :
                        raw = Snapshot(impressions, spend, linkClicks, purchases,
                                       roasTenths, dv)
               \/ raw = Snapshot(HighDelivery.impressions, HighDelivery.spend,
                                 HighDelivery.linkClicks, purchases, roasTenths, dv)
    /\ frontEndPrice \in PriceVals
    /\ campaignSpend \in ParentSpendVals
    /\ metrics = NoValue
    /\ recommendation = NoValue
    /\ prev = NoPrev
    /\ adKpis = NoValue
    /\ classification = NoValue
    /\ batch = NoValue
    /\ sync = NoValue
    /\ probe = NoValue
    /\ pc = "fetched"

\* const metrics = computeMetrics(insightsData)
ComputeMetrics ==
    /\ pc = "fetched"
    /\ metrics' = computeMetrics(raw)
    /\ pc' = "computed"
    /\ UNCHANGED <<raw, frontEndPrice, campaignSpend, recommendation, prev, adKpis, probe, classification, batch, sync>>

\* const recommendation = getRecommendation(metrics, FRONT_END_PRICE, campaignSpend)
GetRecommendation ==
    /\ pc = "computed"
    /\ recommendation' = getRecommendation(metrics, frontEndPrice, campaignSpend)
    /\ pc' = "done"
    /\ UNCHANGED <<raw, frontEndPrice, campaignSpend, metrics, prev, adKpis, probe, classification, batch, sync>>

\* const kpis = metrics ? evaluateKpis(metrics, FRONT_END_PRICE) : []
\* (the ad page scores the KPIs after the recommendation)
EvaluateKpis ==
    /\ pc = "done"
    /\ adKpis' = [set |-> TRUE, list |-> evaluateKpis(metrics, frontEndPrice)]
    /\ pc' = "scored"
    /\ UNCHANGED <<raw, frontEndPrice, campaignSpend, metrics, recommendation, prev, probe, classification, batch, sync>>

\* the delivery counters of the snapshot replaced by those of dv
WithDelivery(r, dv) ==
    LET impressions == toNum(r.impressions).n
        kept        == SelectSeq(r.actions.v,
                                 LAMBDA a : a.action_type # ACTION_TYPES.video3sView)
        v3s         == (impressions * dv.v3sPct) \div 100
        p50         == (impressions * dv.p50Pct) \div 100
    IN  [r EXCEPT !.reach = JStr(Str(impressions \div dv.reachDiv)),
                  !.frequency = JStr(StrTenths(dv.reachDiv * 10)),
                  !.actions = JArr(kept \o Opt(ACTION_TYPES.video3sView, v3s)),
                  !.video_p50_watched_actions =
                      IF p50 > 0 THEN JArr(<<Entry("video_view", Str(p50))>>) ELSE JUndef]

\* the next report of the same entity arrives (SWR revalidation)
Refetch(dv) ==
    /\ pc \in {"done", "scored"}
    /\ prev' = [set |-> TRUE, metrics |-> metrics, recommendation |-> recommendation]
    /\ raw' = WithDelivery(raw, dv)
    /\ raw' # raw
    /\ metrics' = NoValue
    /\ recommendation' = NoValue
    /\ adKpis' = NoValue
    /\ classification' = NoValue
    /\ pc' = "fetched"
    /\ UNCHANGED <<frontEndPrice, campaignSpend, probe, batch, sync>>

Next ==
    \/ ComputeMetrics
    \/ GetRecommendation
    \/ EvaluateKpis
    \/ \E dv \in DeliveryVals : Refetch(dv)

Spec == Init /\ [][Next]_vars

(***************************************************************************)
(* Sparse feeds.  computeMetrics takes a Record<string, unknown>: a field  *)
(* may be missing, a number, a numeric string or an unparseable string,    *)
(* and the action collections may be missing, empty or partial.  The       *)
(* snapshots below are evaluated once, with the page's default price and   *)
(* no parent spend (the ad page, app/[campaignId]/ads/[adId]/page.tsx).    *)
(***************************************************************************)
Unparseable == <<"n", "/", "a">>

SparseImpressions == {JUndef, JStr(Str(0)), JStr(Str(7000)), JNum(R(100))}

SparseClicks == {JUndef, JStr(Str(250))}

SparseSpend == {JUndef, JStr(Unparseable), JStr(Str(300)), JStr(StrTenths(125))}

SparseReach == {JUndef, JStr(Str(700))}

SparseFrequency == {JUndef, JStr(StrTenths(100))}

\* the action collection: missing, empty, complete, unparseable, pixel
\* events only, a zero custom count beside a pixel count, generic
\* (omni-channel) events only, conversions without link clicks
SparseActions ==
    { JUndef,
      JArr(<<>>),
      JArr(<<Entry(ACTION_TYPES.linkClick, Str(250)),
             Entry(ACTION_TYPES.purchase, Str(3)),
             Entry(ACTION_TYPES.addToCart, Str(20)),
             Entry(ACTION_TYPES.video3sView, Str(70))>>),
      JArr(<<Entry(ACTION_TYPES.linkClick, Unparseable)>>),
      JArr(<<Entry(ACTION_TYPES.linkClick, Str(250)),
             Entry(ACTION_TYPES.pixelPurchase, Str(2)),
             Entry(ACTION_TYPES.pixelAddToCart, Str(15))>>),
      JArr(<<Entry(ACTION_TYPES.linkClick, Str(250)),
             Entry(ACTION_TYPES.purchase, Str(0)),
             Entry(ACTION_TYPES.pixelPurchase, Str(2))>>),
      JArr(<<Entry(ACTION_TYPES.linkClick, Str(250)),
             Entry("omni_purchase", Str(3)),
             Entry("omni_add_to_cart", Str(9))>>),
      JArr(<<Entry(ACTION_TYPES.purchase, Str(3))>>) }

SparseActionValues ==
    { JUndef,
      JArr(<<Entry(ACTION_TYPES.purchase, StrTenths(900))>>),
      JArr(<<Entry("omni_purchase", StrTenths(900))>>),
      JArr(<<Entry(ACTION_TYPES.purchase, Unparseable)>>) }

SparseVideoP50 == {JUndef, JArr(<<Entry("video_view", Str(28))>>)}

InitSparse ==
    /\ raw \in [impressions : SparseImpressions, clicks : SparseClicks,
                 spend : SparseSpend, reach : SparseReach,
                 frequency : SparseFrequency, actions : SparseActions,
                 action_values : SparseActionValues,
                 video_p50_watched_actions : SparseVideoP50]
    /\ frontEndPrice = Q(6995, 100)
    /\ campaignSpend = Absent
    /\ metrics = NoValue
    /\ recommendation = NoValue
    /\ prev = NoPrev
    /\ adKpis = NoValue
    /\ classification = NoValue
    /\ batch = NoValue
    /\ sync = NoValue
    /\ probe = NoValue
    /\ pc = "fetched"

NextSparse ==
    \/ ComputeMetrics
    \/ GetRecommendation
    \/ EvaluateKpis

SpecSparse == InitSparse /\ [][NextSparse]_vars

(***************************************************************************)
(* isBenchmarkPassing on its own.  A benchmark of the two tables is scored *)
(* on a value and an interval drawn around its targets; at the next        *)
(* refresh the value and both bounds have moved up by the same amount and  *)
(* the benchmark is scored again.                                          *)
(***************************************************************************)
Offsets == {R(-1), Q(-1, 2), R(0), Q(1, 2), R(1)}

Deltas == {Q(1, 2), R(1), R(2)}

BenchmarkTable ==
    {softBenchmarks[i] : i \in 1..Len(softBenchmarks)}
        \cup {hardBenchmarks[i] : i \in 1..Len(hardBenchmarks)}

\* values at and around the targets of a benchmark
GridOf(target) == {Add(target[i], o) : i \in 1..Len(target), o \in Offsets}

NoVerdict == [passing |-> FALSE, confidentlyPassing |-> FALSE, confidentlyFailing |-> FALSE]

InitBenchmark ==
    /\ frontEndPrice = Q(6995, 100)
    /\ \E benchmark \in BenchmarkTable :
         \E value \in GridOf(TargetOf(benchmark, frontEndPrice)),
            lower \in GridOf(TargetOf(benchmark, frontEndPrice)),
            upper \in GridOf(TargetOf(benchmark, frontEndPrice)),
            confidence \in {"none", "high"} :
              /\ Le(lower, upper)
              /\ probe = [set |-> TRUE, benchmark |-> benchmark, value |-> value,
                          ci |-> [lower |-> lower, upper |-> upper,
                                  center |-> value, confidence |-> confidence],
                          scored |-> FALSE, result |-> NoVerdict,
                          shifted |-> FALSE, before |-> NoVerdict]
    /\ raw = NoValue
    /\ campaignSpend = Absent
    /\ metrics = NoValue
    /\ recommendation = NoValue
    /\ prev = NoPrev
    /\ adKpis = NoValue
    /\ classification = NoValue
    /\ batch = NoValue
    /\ sync = NoValue
    /\ pc = "benchmark"

\* ...isBenchmarkPassing(benchmark, ci, value, frontEndPrice)
Score ==
    /\ pc = "benchmark"
    /\ ~probe.scored
    /\ probe' = [probe EXCEPT !.scored = TRUE,
                              !.result = isBenchmarkPassing(probe.benchmark, probe.ci,
                                                            probe.value, frontEndPrice)]
    /\ UNCHANGED <<raw, frontEndPrice, campaignSpend, metrics, recommendation, prev, pc, adKpis, classification, batch, sync>>

\* the next refresh reports the metric higher, its interval as wide as before
Shift(delta) ==
    /\ pc = "benchmark"
    /\ probe.scored /\ ~probe.shifted
    /\ probe' = [probe EXCEPT !.value = Add(@, delta),
                              !.ci.lower = Add(@, delta),
                              !.ci.upper = Add(@, delta),
                              !.ci.center = Add(@, delta),
                              !.scored = FALSE,
                              !.shifted = TRUE,
                              !.before = probe.result]
    /\ UNCHANGED <<raw, frontEndPrice, campaignSpend, metrics, recommendation, prev, pc, adKpis, classification, batch, sync>>

NextBenchmark ==
    \/ Score
    \/ \E delta \in Deltas : Shift(delta)

SpecBenchmark == InitBenchmark /\ [][NextBenchmark]_vars

\* const { classification, recommendation, kpis } = classifyAd(...)
Destructure(result) ==
    /\ classification' = [set |-> TRUE, tag |-> result.classification]
    /\ recommendation' = result.recommendation
    /\ adKpis' = [set |-> TRUE, list |-> result.kpis]

ClassifyAd ==
    /\ pc = "computed"
    /\ Destructure(classifyAd(metrics, frontEndPrice, campaignSpend))
    /\ pc' = "classified"
    /\ UNCHANGED <<raw, frontEndPrice, campaignSpend, metrics, prev, probe, batch, sync>>

(***************************************************************************)
(* The two interval functions of lib/confidence.ts on their own: a         *)
(* proportion of successes among trials, a monetary total over a count.    *)
(***************************************************************************)
TrialVals == {0, 1, 2, 3, 10, 30, 99, 100, 250, 7000}

\* successes <= trials: none, one, half, all but one, all
SuccessVals(trials) ==
    {k \in {0, 1, trials \div 2, trials - 1, trials} : 0 <= k /\ k <= trials}

TotalVals == {R(0), Q(1, 2), R(15), Q(6995, 100), R(300), R(2500)}

CountVals == {0, 1, 2, 3, 4, 9, 10, 30, 100, 7000}

InitInterval ==
    /\ \/ \E trials \in TrialVals : \E successes \in SuccessVals(trials) :
             probe = [set |-> TRUE, kind |-> "proportion", amount |-> R(successes),
                      size |-> R(trials), scored |-> FALSE, ci |-> DegenerateCI]
       \/ \E total \in TotalVals, count \in CountVals :
             probe = [set |-> TRUE, kind |-> "monetary", amount |-> total,
                      size |-> R(count), scored |-> FALSE, ci |-> DegenerateCI]
    /\ raw = NoValue
    /\ frontEndPrice = Q(6995, 100)
    /\ campaignSpend = Absent
    /\ metrics = NoValue
    /\ recommendation = NoValue
    /\ prev = NoPrev
    /\ adKpis = NoValue
    /\ classification = NoValue
    /\ batch = NoValue
    /\ sync = NoValue
    /\ pc = "interval"

\* return wilsonScoreInterval(successes, trials)
EstimateProportion ==
    /\ pc = "interval"
    /\ probe.kind = "proportion" /\ ~probe.scored
    /\ probe' = [probe EXCEPT !.scored = TRUE,
                              !.ci = wilsonScoreInterval(probe.amount, probe.size)]
    /\ UNCHANGED <<raw, frontEndPrice, campaignSpend, metrics, recommendation, prev, pc, adKpis, classification, batch, sync>>

\* return monetaryCI(total, count)
EstimateMonetary ==
    /\ pc = "interval"
    /\ probe.kind = "monetary" /\ ~probe.scored
    /\ probe' = [probe EXCEPT !.scored = TRUE,
                              !.ci = monetaryCI(probe.amount, probe.size)]
    /\ UNCHANGED <<raw, frontEndPrice, campaignSpend, metrics, recommendation, prev, pc, adKpis, classification, batch, sync>>

NextInterval ==
    \/ EstimateProportion
    \/ EstimateMonetary

SpecInterval == InitInterval /\ [][NextInterval]_vars

(***************************************************************************)
(* Entities without data.  The ad-set table evaluates computeMetrics({})   *)
(* for an ad set without insights (app/[campaignId]/page.tsx, lines        *)
(* 211-214); a report can also come with every counter at "0" and empty    *)
(* action collections.  The price is parseFloat of a configured string.    *)
(***************************************************************************)
EmptySnapshot ==
    [impressions |-> JUndef, clicks |-> JUndef, spend |-> JUndef, reach |-> JUndef,
     frequency |-> JUndef, actions |-> JUndef, action_values |-> JUndef,
     video_p50_watched_actions |-> JUndef]

ZeroSnapshot ==
    [impressions |-> JStr(Str(0)), clicks |-> JStr(Str(0)), spend |-> JStr(Str(0)),
     reach |-> JStr(Str(0)), frequency |-> JStr(Str(0)), actions |-> JArr(<<>>),
     action_values |-> JArr(<<>>), video_p50_watched_actions |-> JArr(<<>>)]

\* parseFloat(process.env.NEXT_PUBLIC_FRONT_END_PRICE || "69.95")
ConfiguredPrices == {NaN, R(0), R(1), Q(6995, 100), R(70), R(200)}

EmptyParentSpends == {Absent, R(0), R(1), R(2000), R(20000)}

InitEmpty ==
    /\ raw \in {EmptySnapshot, ZeroSnapshot}
    /\ frontEndPrice \in ConfiguredPrices
    /\ campaignSpend \in EmptyParentSpends
    /\ metrics = NoValue
    /\ recommendation = NoValue
    /\ prev = NoPrev
    /\ adKpis = NoValue
    /\ classification = NoValue
    /\ batch = NoValue
    /\ sync = NoValue
    /\ probe = NoValue
    /\ pc = "fetched"

NextEmpty ==
    \/ ComputeMetrics
    \/ GetRecommendation
    \/ EvaluateKpis
    \/ ClassifyAd

SpecEmpty == InitEmpty /\ [][NextEmpty]_vars

(***************************************************************************)
(* The winners loop of the campaign page (app/[campaignId]/page.tsx,       *)
(* lines 72-116): each ad's snapshot goes through computeMetrics and       *)
(* classifyAd with the campaign's spend.  The ads below also report        *)
(* add-to-cart events.                                                     *)
(***************************************************************************)
\* delivery of an ad: starved, early, spent three CPA targets, established
AdDeliveries ==
    { [impressions |-> 90,   spend |-> 2,   linkClicks |-> 3],
      [impressions |-> 800,  spend |-> 15,  linkClicks |-> 30],
      [impressions |-> 4500, spend |-> 211, linkClicks |-> 120],
      [impressions |-> 7000, spend |-> 300, linkClicks |-> 250] }

AdPurchases == {0, 2, 10}

AdAddToCarts == {0, 8, 40}

AdRoasTenths == {8, 18}

\* topLevelCampaignSpend: 0 without campaign insights, else the campaign's spend
AdCampaignSpends == {R(0), R(2000), R(20000)}

AdSnapshot(delivery, purchases, addToCart, roasTenths, dv) ==
    WithAddToCart(Snapshot(delivery.impressions, delivery.spend, delivery.linkClicks,
                           purchases, roasTenths, dv), addToCart)

InitClassify ==
    /\ \E delivery \in AdDeliveries, purchases \in AdPurchases,
          addToCart \in AdAddToCarts, roasTenths \in AdRoasTenths, dv \in DeliveryVals :
            /\ purchases = 0 => roasTenths = 8
            \* conversions follow a link click
            /\ purchases <= delivery.linkClicks /\ addToCart <= delivery.linkClicks
            /\ raw = AdSnapshot(delivery, purchases, addToCart, roasTenths, dv)
    /\ frontEndPrice \in PriceVals
    /\ campaignSpend \in AdCampaignSpends
    /\ metrics = NoValue
    /\ recommendation = NoValue
    /\ prev = NoPrev
    /\ adKpis = NoValue
    /\ classification = NoValue
    /\ batch = NoValue
    /\ sync = NoValue
    /\ probe = NoValue
    /\ pc = "fetched"

NextClassify ==
    \/ ComputeMetrics
    \/ ClassifyAd

SpecClassify == InitClassify /\ [][NextClassify]_vars

(***************************************************************************)
(* A batch of ads in the winners loop.  Each ad has its own snapshot; the  *)
(* price and the campaign spend are the loop's constants.  The steps of    *)
(* different ads may be taken in any order; log records the order taken.   *)
(***************************************************************************)
BatchSnapshots ==
    { AdSnapshot(delivery, purchases, 40, 18, [reachDiv |-> 1, v3sPct |-> 0, p50Pct |-> 0]) :
        delivery \in {d \in AdDeliveries : d.linkClicks >= 40}, purchases \in AdPurchases }

NewAd(insightsData) ==
    [raw |-> insightsData, metrics |-> NoValue, result |-> NoValue, pc |-> "fetched"]

\* variant: every iteration reads the first ad of the batch
AdAtFirst(ads, i) == ads[1]

\* const ad of allAds
AdAt(ads, i) == ads[i]

InitBatch ==
    /\ \E first \in BatchSnapshots, second \in BatchSnapshots :
          batch = [set |-> TRUE, ads |-> <<NewAd(first), NewAd(second)>>, log |-> <<>>]
    /\ frontEndPrice = Q(6995, 100)
    /\ campaignSpend \in {R(0), R(20000)}
    /\ raw = NoValue
    /\ metrics = NoValue
    /\ recommendation = NoValue
    /\ prev = NoPrev
    /\ adKpis = NoValue
    /\ classification = NoValue
    /\ sync = NoValue
    /\ probe = NoValue
    /\ pc = "batch"

\* const metrics = computeMetrics(insightsData), for the i-th ad
BatchComputeMetrics(i) ==
    /\ pc = "batch"
    /\ batch.ads[i].pc = "fetched"
    /\ batch' = [batch EXCEPT !.ads[i].metrics = computeMetrics(AdAt(batch.ads, i).raw),
                              !.ads[i].pc = "computed",
                              !.log = Append(@, i)]
    /\ UNCHANGED <<raw, frontEndPrice, campaignSpend, metrics, recommendation, prev, pc, adKpis, probe, classification, sync>>

\* classifyAd(metrics, FRONT_END_PRICE, topLevelCampaignSpend), for the i-th ad
BatchClassifyAd(i) ==
    /\ pc = "batch"
    /\ batch.ads[i].pc = "computed"
    /\ batch' = [batch EXCEPT !.ads[i].result = classifyAd(AdAt(batch.ads, i).metrics,
                                                           frontEndPrice, campaignSpend),
                              !.ads[i].pc = "classified",
                              !.log = Append(@, i)]
    /\ UNCHANGED <<raw, frontEndPrice, campaignSpend, metrics, recommendation, prev, pc, adKpis, probe, classification, sync>>

NextBatch ==
    \E i \in 1..2 :
        \/ BatchComputeMetrics(i)
        \/ BatchClassifyAd(i)

SpecBatch == InitBatch /\ [][NextBatch]_vars

(***************************************************************************)
(* hooks/use-sync-status.ts.  isSyncing is the hook's state, pollRef its   *)
(* ref; posts are the POST requests in flight, intervals and timeouts the  *)
(* timers that were set and not cleared (a timer is named after the        *)
(* trigger that set it and carries the prevSyncedAt of its closure).       *)
(* cached is data.lastSyncedAt, server the completed_at of the latest      *)
(* completed sync_log row (0: none), running the spawned sync processes.   *)
(* Time is counted in minutes.  ended and stopped remember what last set   *)
(* isSyncing to false and what last cleared an interval.                   *)
(***************************************************************************)
\* number of triggerSync calls followed
MaxSyncs == 3

\* minutes followed
MaxClock == 8

\* the safety timeout, 5 * 60_000 ms
TimeoutMinutes == 5

InitSync ==
    /\ sync = [set |-> TRUE, isSyncing |-> FALSE, pollRef |-> 0, cached |-> 0,
               server |-> 0, running |-> 0, triggers |-> 0, current |-> 0,
               posts |-> {}, intervals |-> {}, timeouts |-> {}, now |-> 0,
               ended |-> NoValue, stopped |-> NoValue]
    /\ raw = NoValue
    /\ frontEndPrice = Q(6995, 100)
    /\ campaignSpend = Absent
    /\ metrics = NoValue
    /\ recommendation = NoValue
    /\ prev = NoPrev
    /\ adKpis = NoValue
    /\ classification = NoValue
    /\ batch = NoValue
    /\ probe = NoValue
    /\ pc = "sync"

Others == <<raw, frontEndPrice, campaignSpend, metrics, recommendation, prev, pc, adKpis, probe, classification, batch>>

\* if (pollRef.current) clearInterval(pollRef.current)
ClearPolled(intervals, pollRef) == {iv \in intervals : iv.id # pollRef}

\* what the step remembers when it turns isSyncing off
EndedBy(cause, trigger) ==
    IF sync.isSyncing
    THEN [set |-> TRUE, by |-> cause, trigger |-> trigger, sync |-> sync.current]
    ELSE sync.ended

\* what the step remembers when it clears the interval of pollRef
StoppedBy(cause, trigger) ==
    IF sync.pollRef # 0
    THEN [set |-> TRUE, by |-> cause, trigger |-> trigger, interval |-> sync.pollRef]
    ELSE sync.stopped

\* if (isSyncing) return; setIsSyncing(true); prevSyncedAt = data?.data?.lastSyncedAt
\* ?? null; then the POST is sent
TriggerSync ==
    /\ pc = "sync"
    /\ ~sync.isSyncing
    /\ sync.triggers < MaxSyncs
    /\ sync' = [sync EXCEPT !.isSyncing = TRUE,
                            !.triggers = @ + 1,
                            !.current = sync.triggers + 1,
                            !.posts = @ \cup {[trigger |-> sync.triggers + 1,
                                               prevSyncedAt |-> sync.cached]}]
    /\ UNCHANGED Others

\* catch { setIsSyncing(false); return }
PostFails(post) ==
    /\ pc = "sync"
    /\ post \in sync.posts
    /\ sync' = [sync EXCEPT !.posts = @ \ {post},
                            !.isSyncing = FALSE,
                            !.ended = EndedBy("postError", post.trigger)]
    /\ UNCHANGED Others

\* the POST resolved (the route spawned the sync, or answered 500 without
\* one): pollRef.current = setInterval(...); setTimeout(..., 5 * 60_000)
PostReturns(post, spawned) ==
    /\ pc = "sync"
    /\ post \in sync.posts
    /\ sync' = [sync EXCEPT !.posts = @ \ {post},
                            !.running = IF spawned THEN @ + 1 ELSE @,
                            !.intervals = @ \cup {[id |-> post.trigger,
                                                   prevSyncedAt |-> post.prevSyncedAt]},
                            !.pollRef = post.trigger,
                            !.timeouts = @ \cup {[trigger |-> post.trigger,
                                                  due |-> sync.now + TimeoutMinutes]}]
    /\ UNCHANGED Others

\* the interval callback: res = await mutate(); if (newSyncedAt && newSyncedAt
\* !== prevSyncedAt) { setIsSyncing(false); clear pollRef.current; pollRef.current = null }
Poll(iv) ==
    /\ pc = "sync"
    /\ iv \in sync.intervals
    /\ IF sync.server # 0 /\ sync.server # iv.prevSyncedAt
       THEN sync' = [sync EXCEPT !.cached = sync.server,
                                 !.isSyncing = FALSE,
                                 !.intervals = ClearPolled(@, sync.pollRef),
                                 !.pollRef = 0,
                                 !.ended = EndedBy("poll", iv.id),
                                 !.stopped = StoppedBy("poll", iv.id)]
       ELSE sync' = [sync EXCEPT !.cached = sync.server]
    /\ UNCHANGED Others

\* the setTimeout callback, 5 minutes after it was set
Timeout(t) ==
    /\ pc = "sync"
    /\ t \in sync.timeouts
    /\ t.due = sync.now
    /\ sync' = [sync EXCEPT !.timeouts = @ \ {t},
                            !.isSyncing = FALSE,
                            !.intervals = ClearPolled(@, sync.pollRef),
                            !.pollRef = 0,
                            !.ended = EndedBy("timeout", t.trigger),
                            !.stopped = StoppedBy("timeout", t.trigger)]
    /\ UNCHANGED Others

\* a spawned metrics_sync.py finished: a new completed row in sync_log
SyncCompletes ==
    /\ pc = "sync"
    /\ sync.running > 0
    /\ sync' = [sync EXCEPT !.running = @ - 1, !.server = @ + 1]
    /\ UNCHANGED Others

\* useSWR refreshInterval: 60_000
Revalidate ==
    /\ pc = "sync"
    /\ sync.cached # sync.server
    /\ sync' = [sync EXCEPT !.cached = sync.server]
    /\ UNCHANGED Others

\* a minute passes; a timeout that is due fires first
Tick ==
    /\ pc = "sync"
    /\ sync.now < MaxClock
    /\ \A t \in sync.timeouts : t.due > sync.now
    /\ sync' = [sync EXCEPT !.now = @ + 1]
    /\ UNCHANGED Others

NextSync ==
    \/ TriggerSync
    \/ \E post \in sync.posts : PostFails(post)
    \/ \E post \in sync.posts, spawned \in BOOLEAN : PostReturns(post, spawned)
    \/ \E iv \in sync.intervals : Poll(iv)
    \/ \E t \in sync.timeouts : Timeout(t)
    \/ SyncCompletes
    \/ Revalidate
    \/ Tick

SpecSync == InitSync /\ [][NextSync]_vars

(***************************************************************************)
(* Properties of the recommendation.  They are stated on the metrics, the  *)
(* front-end price (the CPA target is the front-end price) and the parent  *)
(* spend of the evaluation, not through the rule predicates above.         *)
(***************************************************************************)
Evaluated == pc = "done"

Actions == {"Kill", "Watch", "Scale", "Starving"}

ParentSupplied == ~IsAbsent(campaignSpend) /\ Gt(campaignSpend, R(0))

\* spend / parent < 2%, or the absolute floors when there is no parent spend
StarvingCase ==
    IF ParentSupplied
    THEN Lt(Mul(metrics.spend, R(50)), campaignSpend)
    ELSE Lt(metrics.spend, R(3)) \/ Lt(metrics.impressions, R(100))

ZeroPurchases == metrics.purchases = R(0)

SpendOver(k) == Gt(metrics.spend, Mul(R(k), frontEndPrice))

SpendAtLeast(k) == Ge(metrics.spend, Mul(R(k), frontEndPrice))

SpendExactly(k) == metrics.spend = Mul(R(k), frontEndPrice)

Clicks30 == Ge(metrics.linkClicks, R(30))

CpaOver2x == Gt(metrics.cpa, Mul(R(2), frontEndPrice))

ScaleCase ==
    /\ Ge(metrics.purchases, R(3)) /\ Ge(metrics.roas, R(1))
    /\ Le(Mul(metrics.cpa, R(2)), Mul(R(3), frontEndPrice))

FirstLine == recommendation.reasoning[1]

\* the condition of the rule whose line is first in the reasoning
DecidingRuleHolds ==
    CASE FirstLine.line = LineStarvingShare    -> ParentSupplied /\ StarvingCase
      [] FirstLine.line = LineStarvingAbsolute -> ~ParentSupplied /\ StarvingCase
      [] FirstLine.line = LineSpent3x          -> ZeroPurchases /\ SpendOver(3)
      [] FirstLine.line = LineSpent2x          -> ZeroPurchases /\ SpendOver(2) /\ Clicks30
      [] FirstLine.line = LineBadCpa           ->
            Ge(metrics.purchases, R(1)) /\ Le(metrics.purchases, R(4)) /\ CpaOver2x
      [] FirstLine.line = LineUnprofitable     ->
            Ge(metrics.purchases, R(5)) /\ Lt(metrics.roas, Q(4, 5))
      [] FirstLine.line = LineScale            -> ScaleCase
      [] FirstLine.line = LineWatchPurchases   -> ~ZeroPurchases
      [] FirstLine.line = LineWatchNoPurchases -> ZeroPurchases
      [] OTHER -> FALSE

DecidingLines(action) ==
    CASE action = "Starving" -> {LineStarvingShare, LineStarvingAbsolute}
      [] action = "Kill"     -> {LineSpent3x, LineSpent2x, LineBadCpa, LineUnprofitable}
      [] action = "Scale"    -> {LineScale}
      [] action = "Watch"    -> {LineWatchPurchases, LineWatchNoPurchases}
      [] OTHER -> {}

\* C1: getRecommendation is total: every evaluation ends with one of the
\* four actions and a non-empty reasoning list whose first entry is the
\* line of the rule that decided the action, and that rule holds of the input.
C1_Total ==
    Evaluated =>
        /\ recommendation.action \in Actions
        /\ Len(recommendation.reasoning) >= 1
        /\ FirstLine.line \in DecidingLines(recommendation.action)
        /\ DecidingRuleHolds

\* a Watch verdict that also carries a soft-KPI concern line
C1_Witness ==
    /\ Evaluated
    /\ recommendation.action = "Watch"
    /\ Len(recommendation.reasoning) = 2
    /\ FirstLine.line = LineWatchNoPurchases

\* C2: whenever the starving condition holds the result is Starving with a
\* single reasoning entry and no KPI label, also when a Kill rule or the
\* Scale rule would match.
C2_StarvingShortCircuits ==
    (Evaluated /\ StarvingCase) =>
        /\ recommendation.action = "Starving"
        /\ Len(recommendation.reasoning) = 1
        /\ FirstLine.labels = <<>>

\* a starving entity with zero purchases and spend above 3x the target
C2_Witness ==
    /\ Evaluated /\ StarvingCase
    /\ ZeroPurchases /\ SpendOver(3)
    /\ recommendation.action = "Starving"

\* C3: with a parent spend > 0 the entity is Starving iff spend / parent <
\* 2% (the absolute floors are not consulted); without one, iff spend < 3 or
\* impressions < 100.  Scenario A (spend 5, impressions 80, parent 2000) is
\* Starving.
C3_StarvingCondition ==
    Evaluated =>
        /\ recommendation.action = "Starving" <=> StarvingCase
        /\ (/\ metrics.spend = R(5) /\ metrics.impressions = R(80)
            /\ campaignSpend = R(2000)) => recommendation.action = "Starving"

\* a share of exactly 2% with impressions under the absolute floor
C3_Witness ==
    /\ Evaluated
    /\ campaignSpend = R(2000) /\ metrics.spend = R(40) /\ metrics.impressions = R(80)
    /\ recommendation.action # "Starving"

\* the first line prints 3x the target, rounded to a whole amount
CitesThreshold3x ==
    /\ Len(FirstLine.args) = 2
    /\ FirstLine.args[2].d = 1
    /\ Le(Sub(FirstLine.args[2], Mul(R(3), frontEndPrice)), Q(1, 2))
    /\ Le(Sub(Mul(R(3), frontEndPrice), FirstLine.args[2]), Q(1, 2))

\* C4 as stated: zero purchases and spend at least 3x the target (exactly
\* 3x included) is Kill, whatever the link clicks, citing the 3x threshold.
C4_Original ==
    (Evaluated /\ ~StarvingCase /\ ZeroPurchases /\ SpendAtLeast(3)) =>
        /\ recommendation.action = "Kill"
        /\ FirstLine.line = LineSpent3x

\* C4: zero purchases and spend strictly above 3x the target is Kill,
\* whatever the link clicks, and the first line cites the 3x threshold
\* (rounded to a whole amount); at
\* exactly 3x the 3x rule does not fire and the entity is killed only with
\* at least 30 link clicks.
C4_Kill3xStrict ==
    (Evaluated /\ ~StarvingCase /\ ZeroPurchases) =>
        /\ SpendOver(3) =>
              /\ recommendation.action = "Kill"
              /\ FirstLine.line = LineSpent3x
              /\ CitesThreshold3x
        /\ SpendExactly(3) =>
              /\ FirstLine.line # LineSpent3x
              /\ recommendation.action = "Kill" <=> Clicks30

\* spend above 3x the target with fewer than 30 link clicks, killed
C4_Witness ==
    /\ Evaluated /\ ~StarvingCase /\ ZeroPurchases
    /\ SpendOver(3) /\ ~Clicks30
    /\ recommendation.action = "Kill"

\* C5 as stated: zero purchases, spend at least 2x the target (exactly 2x
\* included) and 30 link clicks is Kill; under 30 link clicks Kill only
\* when the 3x tier is reached, otherwise Watch.
C5_Original ==
    (Evaluated /\ ~StarvingCase /\ ZeroPurchases) =>
        /\ (SpendAtLeast(2) /\ Clicks30) => recommendation.action = "Kill"
        /\ ~Clicks30 =>
              recommendation.action = (IF SpendAtLeast(3) THEN "Kill" ELSE "Watch")

\* C5: zero purchases, spend strictly above 2x the target and at least 30
\* link clicks is Kill; under 30 link clicks Kill only when spend is
\* strictly above 3x the target; every other zero-purchase entity is Watch.
C5_Kill2xStrict ==
    (Evaluated /\ ~StarvingCase /\ ZeroPurchases) =>
        recommendation.action =
            (IF SpendOver(3) \/ (SpendOver(2) /\ Clicks30) THEN "Kill" ELSE "Watch")

\* spend between 2x and 3x the target with 30 link clicks, killed by the 2x rule
C5_Witness ==
    /\ Evaluated /\ ~StarvingCase /\ ZeroPurchases
    /\ SpendOver(2) /\ ~SpendOver(3) /\ Clicks30
    /\ recommendation.action = "Kill"
    /\ FirstLine.line = LineSpent2x

\* C6: with 1 to 4 purchases the entity is killed iff its CPA is strictly
\* above 2x the target; a CPA of exactly 2x the target is not killed.
C6_LowVolumeKillIffCpaOver2x ==
    (/\ Evaluated /\ ~StarvingCase
     /\ Ge(metrics.purchases, R(1)) /\ Le(metrics.purchases, R(4))) =>
        (recommendation.action = "Kill" <=> CpaOver2x)

\* one purchase at a CPA of exactly 2x the target, not killed
C6_Witness ==
    /\ Evaluated /\ ~StarvingCase
    /\ metrics.purchases = R(1)
    /\ metrics.cpa = Mul(R(2), frontEndPrice)
    /\ recommendation.action # "Kill"

ScenarioC ==
    /\ Evaluated /\ ~StarvingCase
    /\ metrics.purchases = R(4) /\ metrics.spend = R(560) /\ frontEndPrice = R(70)

\* C7 as stated: Scenario C (4 purchases, spend 560, target 70) is Kill.
C7_Original == ScenarioC => recommendation.action = "Kill"

\* C7: Scenario C has a CPA of 140, exactly 2x the target, which is not
\* strictly above it: the recommendation is Watch, with the purchases line.
C7_ScenarioCIsWatch ==
    ScenarioC =>
        /\ metrics.cpa = R(140)
        /\ recommendation.action = "Watch"
        /\ FirstLine.line = LineWatchPurchases

C7_Witness == ScenarioC /\ recommendation.action = "Watch"

\* C8: with at least 5 purchases the entity is killed iff its ROAS is below
\* 0.8, whatever its CPA and its KPI results (purchases 6, ROAS 0.6 is Kill).
C8_ProvenUnprofitable ==
    (Evaluated /\ ~StarvingCase /\ Ge(metrics.purchases, R(5))) =>
        (recommendation.action = "Kill" <=> Lt(metrics.roas, Q(4, 5)))

\* Scenario D: 6 purchases at a ROAS of 0.6, killed by the ROAS rule
C8_Witness ==
    /\ Evaluated /\ ~StarvingCase
    /\ metrics.purchases = R(6) /\ metrics.roas = Q(6, 10)
    /\ recommendation.action = "Kill"
    /\ FirstLine.line = LineUnprofitable

\* C9: the result is Scale iff the entity is not starving, has at least 3
\* purchases, ROAS >= 1.0 and CPA <= 1.5x the target; no Kill rule pre-empts it.
C9_ScaleIff ==
    Evaluated => (recommendation.action = "Scale" <=> (~StarvingCase /\ ScaleCase))

\* Scenario E: 5 purchases, ROAS 1.8, CPA 60, target 70
C9_Witness ==
    /\ Evaluated
    /\ metrics.purchases = R(5) /\ metrics.roas = Q(18, 10) /\ metrics.cpa = R(60)
    /\ frontEndPrice = R(70)
    /\ recommendation.action = "Scale"

\* the fields the economic rules read
SameEconomics(a, b) ==
    /\ a.spend = b.spend /\ a.impressions = b.impressions
    /\ a.purchases = b.purchases /\ a.linkClicks = b.linkClicks
    /\ a.cpa = b.cpa /\ a.roas = b.roas

SoftKeys == {"cpc", "ctr", "cpm", "hookRate", "holdRate", "frequency"}

\* some soft KPI of the evaluated metrics is confidently failing
AnySoftFailing(kpis) ==
    \E i \in 1..Len(kpis) :
        kpis[i].benchmark.key \in SoftKeys /\ kpis[i].confidentlyFailing

SomeSoftKpiFailing == AnySoftFailing(evaluateKpis(metrics, frontEndPrice))

\* C10: two evaluations of an entity that agree on spend, impressions,
\* purchases, link clicks, CPA, ROAS, price and parent spend have the same
\* action and the same first line, whatever their soft KPIs are; a
\* confidently failing soft KPI only adds a second line, a Note on Scale
\* and a Concern on Watch.
C10_SoftKpisNeverChangeVerdict ==
    Evaluated =>
        /\ (prev.set /\ SameEconomics(prev.metrics, metrics)) =>
              /\ prev.recommendation.action = recommendation.action
              /\ prev.recommendation.reasoning[1] = FirstLine
        /\ Len(recommendation.reasoning) <= 2
        /\ Len(recommendation.reasoning) = 2 <=>
              (recommendation.action \in {"Scale", "Watch"} /\ SomeSoftKpiFailing)
        /\ Len(recommendation.reasoning) = 2 =>
              recommendation.reasoning[2].line =
                  (IF recommendation.action = "Scale" THEN LineNote ELSE LineConcern)

\* the same entity scaled twice, once with a Note line and once without
C10_Witness ==
    /\ Evaluated /\ prev.set
    /\ SameEconomics(prev.metrics, metrics)
    /\ recommendation.action = "Scale"
    /\ Len(prev.recommendation.reasoning) = 1
    /\ Len(recommendation.reasoning) = 2

\* C11: a non-starving entity with 1 or 2 purchases whose CPA is not above
\* 2x the target is Watch (with the purchases line), never Scale and never
\* Kill, whatever its ROAS.
C11_LowVolumeWatch ==
    (/\ Evaluated /\ ~StarvingCase
     /\ Ge(metrics.purchases, R(1)) /\ Le(metrics.purchases, R(2))
     /\ ~CpaOver2x) =>
        /\ recommendation.action = "Watch"
        /\ FirstLine.line = LineWatchPurchases

\* as Scenario F: one purchase, spend 40, target 70, a ROAS above 1.0
C11_Witness ==
    /\ Evaluated /\ ~StarvingCase
    /\ metrics.purchases = R(1) /\ metrics.spend = R(40) /\ frontEndPrice = R(70)
    /\ Gt(metrics.roas, R(1))
    /\ recommendation.action = "Watch"

\* the KPI list of the ad page has been computed
Scored == pc = "scored"

KpiCount == Len(adKpis.list)

KeysOf(list) == [i \in 1..Len(list) |-> list[i].benchmark.key]

\* the entry of the KPI list for a key that is present
KpiOf(key) ==
    adKpis.list[CHOOSE i \in 1..KpiCount : adKpis.list[i].benchmark.key = key]

\* C12 as stated: a KPI whose confidence level is "none" is neither
\* confidently passing nor confidently failing.
C12_Original ==
    Scored =>
        \A i \in 1..KpiCount :
            adKpis.list[i].ci.confidence = "none" =>
                /\ ~adKpis.list[i].confidentlyPassing
                /\ ~adKpis.list[i].confidentlyFailing

\* the benchmark keys in declaration order, without and with the video ones
NonVideoKeys ==
    <<"cpc", "ctr", "cpm", "frequency", "cvr", "atcRate", "atcToPurchase", "cpa">>

AllKeys ==
    <<"cpc", "ctr", "cpm", "hookRate", "holdRate", "frequency",
      "cvr", "atcRate", "atcToPurchase", "cpa">>

\* C13: the KPI list holds the hookRate and holdRate entries iff
\* metrics.hookRate is non-null; every other benchmark is present exactly
\* once, and the list keeps the declaration order of the benchmark table.
C13_VideoOnlySkipped ==
    Scored =>
        KeysOf(adKpis.list) = (IF IsNull(metrics.hookRate) THEN NonVideoKeys ELSE AllKeys)

\* hookRate is defined and holdRate is null: both video entries are present
C13_Witness ==
    /\ Scored
    /\ ~IsNull(metrics.hookRate) /\ IsNull(metrics.holdRate)
    /\ KpiCount = 10
    /\ KpiOf("holdRate").value = R(0)

C17_Original ==
    Scored =>
        \A i \in 1..KpiCount :
            /\ adKpis.list[i].confidentlyPassing => adKpis.list[i].passing
            /\ adKpis.list[i].confidentlyFailing => ~adKpis.list[i].passing

Computed == pc # "fetched"

Finite(x) == x.d > 0

IsZero(x) == x = R(0)

\* a ratio over a zero denominator is exactly 0, and a ratio of a finite
\* numerator is finite
ZeroSafe(ratio, numerator, denominator) ==
    /\ IsZero(denominator) => IsZero(ratio)
    /\ Finite(numerator) => Finite(ratio)

\* C18: computeMetrics guards every ratio denominator: over a zero
\* denominator cpc, ctr, cpm, cvr, atcRate, atcToPurchase, aov, cpa and roas
\* are exactly 0; hookRate is null unless video3sViews > 0 and impressions
\* > 0; holdRate is null unless videoP50Views > 0 and video3sViews > 0; no
\* derived field holds the result of a division by zero.
C18_DenominatorsGuarded ==
    Computed =>
        /\ ZeroSafe(metrics.cpc, metrics.spend, metrics.linkClicks)
        /\ ZeroSafe(metrics.ctr, metrics.linkClicks, metrics.impressions)
        /\ ZeroSafe(metrics.cpm, metrics.spend, metrics.impressions)
        /\ ZeroSafe(metrics.cvr, metrics.purchases, metrics.linkClicks)
        /\ ZeroSafe(metrics.atcRate, metrics.addToCart, metrics.linkClicks)
        /\ ZeroSafe(metrics.atcToPurchase, metrics.purchases, metrics.addToCart)
        /\ ZeroSafe(metrics.aov, metrics.purchaseValue, metrics.purchases)
        /\ ZeroSafe(metrics.cpa, metrics.spend, metrics.purchases)
        /\ ZeroSafe(metrics.roas, metrics.purchaseValue, metrics.spend)
        /\ ~(Gt(metrics.video3sViews, R(0)) /\ Gt(metrics.impressions, R(0)))
               => IsNull(metrics.hookRate)
        /\ ~(Gt(metrics.videoP50Views, R(0)) /\ Gt(metrics.video3sViews, R(0)))
               => IsNull(metrics.holdRate)
        /\ ~IsNull(metrics.hookRate) => Finite(metrics.hookRate)
        /\ ~IsNull(metrics.holdRate) => Finite(metrics.holdRate)

\* revenue and conversions were reported without any spend, impressions or
\* link clicks; half-watched views without any 3-second view
C18_Witness ==
    /\ Computed
    /\ Gt(metrics.purchaseValue, R(0)) /\ Gt(metrics.purchases, R(0))
    /\ IsZero(metrics.spend) /\ IsZero(metrics.roas)
    /\ IsZero(metrics.linkClicks) /\ IsZero(metrics.cvr)
    /\ IsZero(metrics.impressions) /\ IsZero(metrics.cpm)
    /\ Gt(metrics.videoP50Views, R(0)) /\ IsNull(metrics.holdRate)

\* the count of the first of three events that is positive, 0 if none is
FirstPositive(custom, pixel, generic) ==
    IF Gt(custom, R(0)) THEN custom
    ELSE IF Gt(pixel, R(0)) THEN pixel
    ELSE IF Gt(generic, R(0)) THEN generic
    ELSE R(0)

\* C19 as stated: purchases and add-to-cart are the count of the first
\* positive of the custom-conversion event, the pixel event and the generic
\* (omni-channel) event, and 0 only if none of the three is positive.
C19_Original ==
    Computed =>
        /\ metrics.purchases =
               FirstPositive(extractAction(raw.actions, ACTION_TYPES.purchase),
                             extractAction(raw.actions, ACTION_TYPES.pixelPurchase),
                             extractAction(raw.actions, "omni_purchase"))
        /\ metrics.addToCart =
               FirstPositive(extractAction(raw.actions, ACTION_TYPES.addToCart),
                             extractAction(raw.actions, ACTION_TYPES.pixelAddToCart),
                             extractAction(raw.actions, "omni_add_to_cart"))

NumericFields ==
    {"impressions", "clicks", "linkClicks", "spend", "reach", "frequency",
     "cpc", "ctr", "cpm", "addToCart", "purchases", "purchaseValue", "cvr",
     "atcRate", "atcToPurchase", "aov", "cpa", "roas", "video3sViews",
     "videoP50Views"}

\* C20 as stated: for every snapshot each numeric field of the derived
\* metrics is a finite number >= 0, and hookRate / holdRate are null or >= 0.
C20_Original ==
    Computed =>
        /\ \A f \in NumericFields : Finite(metrics[f]) /\ Ge(metrics[f], R(0))
        /\ IsNull(metrics.hookRate) \/ Ge(metrics.hookRate, R(0))
        /\ IsNull(metrics.holdRate) \/ Ge(metrics.holdRate, R(0))

ProbeTarget == TargetOf(probe.benchmark, frontEndPrice)[1]

ProbeScored == probe.set /\ probe.scored

\* C14: for a less_than benchmark passing = value < target,
\* confidentlyPassing = ci.upper < target, confidentlyFailing = ci.lower >
\* target; for a greater_than benchmark passing = value > target,
\* confidentlyPassing = ci.lower > target, confidentlyFailing = ci.upper <
\* target; a value or bound equal to the target neither passes nor
\* confidently fails.
C14_OneSidedStrict ==
    ProbeScored =>
        /\ probe.benchmark.comparison = "less_than" =>
              /\ probe.result.passing <=> Lt(probe.value, ProbeTarget)
              /\ probe.result.confidentlyPassing <=> Lt(probe.ci.upper, ProbeTarget)
              /\ probe.result.confidentlyFailing <=> Gt(probe.ci.lower, ProbeTarget)
              /\ probe.value = ProbeTarget => ~probe.result.passing
              /\ probe.ci.upper = ProbeTarget => ~probe.result.confidentlyPassing
              /\ probe.ci.lower = ProbeTarget => ~probe.result.confidentlyFailing
        /\ probe.benchmark.comparison = "greater_than" =>
              /\ probe.result.passing <=> Gt(probe.value, ProbeTarget)
              /\ probe.result.confidentlyPassing <=> Gt(probe.ci.lower, ProbeTarget)
              /\ probe.result.confidentlyFailing <=> Lt(probe.ci.upper, ProbeTarget)
              /\ probe.value = ProbeTarget => ~probe.result.passing
              /\ probe.ci.lower = ProbeTarget => ~probe.result.confidentlyPassing
              /\ probe.ci.upper = ProbeTarget => ~probe.result.confidentlyFailing

\* CTR of exactly 3 with an interval that ends at 3
C14_Witness ==
    /\ ProbeScored
    /\ probe.benchmark.key = "ctr"
    /\ probe.value = R(3) /\ probe.ci.upper = R(3) /\ Lt(probe.ci.lower, R(3))
    /\ probe.result = NoVerdict

\* C16: for a greater_than benchmark, after the value and both interval
\* bounds have moved up by the same amount, passing and confidentlyPassing
\* have not gone from true to false and confidentlyFailing has not gone from
\* false to true.
C16_Monotonic ==
    (ProbeScored /\ probe.shifted /\ probe.benchmark.comparison = "greater_than") =>
        /\ probe.before.passing => probe.result.passing
        /\ probe.before.confidentlyPassing => probe.result.confidentlyPassing
        /\ probe.result.confidentlyFailing => probe.before.confidentlyFailing

\* an ATC rate that was confidently failing and, one point higher, passes
C16_Witness ==
    /\ ProbeScored /\ probe.shifted
    /\ probe.benchmark.key = "atcRate"
    /\ probe.before.confidentlyFailing /\ ~probe.before.passing
    /\ probe.result.passing /\ ~probe.result.confidentlyFailing

IsClassified == pc = "classified"

Tag == classification.tag

HardKeys == {"cvr", "atcRate", "atcToPurchase", "cpa"}

NumConfidentlyPassing ==
    Cardinality({i \in 1..KpiCount : adKpis.list[i].confidentlyPassing})

NumConfidentlyFailing ==
    Cardinality({i \in 1..KpiCount : adKpis.list[i].confidentlyFailing})

NumPassing == Cardinality({i \in 1..KpiCount : adKpis.list[i].passing})

WinnerCondition ==
    \/ recommendation.action = "Scale"
    \/ /\ NumConfidentlyPassing >= 3
       /\ NumConfidentlyFailing = 0
       /\ Gt(metrics.spend, R(20))

TrendingCondition ==
    /\ ~WinnerCondition
    /\ recommendation.action = "Watch"
    /\ NumPassing >= 3
    /\ \A i \in 1..KpiCount :
          adKpis.list[i].benchmark.key \in HardKeys => ~adKpis.list[i].confidentlyFailing
    /\ \E i \in 1..KpiCount : adKpis.list[i].ci.confidence \in {"low", "medium"}
    /\ Gt(metrics.spend, R(10))

\* C24: classifyAd tags an entity Winner if and only if its recommendation
\* is Scale, or it has at least 3 confidently passing KPIs, no confidently
\* failing KPI and spend > 20.
C24_WinnerIff == IsClassified => (Tag = "winner" <=> WinnerCondition)

\* a winner by its KPIs alone: the recommendation is Watch
C24_Witness ==
    /\ IsClassified /\ Tag = "winner"
    /\ recommendation.action = "Watch"
    /\ NumConfidentlyPassing >= 3 /\ NumConfidentlyFailing = 0

\* C25: classifyAd tags an entity Trending if and only if it is not a
\* Winner, its recommendation is Watch, at least 3 KPIs pass at point
\* estimate, no hard KPI is confidently failing, some KPI has confidence low
\* or medium and spend > 10; every other entity gets no tag, so exactly one of
\* winner, trending, no tag applies.
C25_TrendingIff ==
    IsClassified =>
        /\ Tag = "trending" <=> TrendingCondition
        /\ Tag = "null" <=> (~WinnerCondition /\ ~TrendingCondition)
        /\ Tag \in {"winner", "trending", "null"}

\* an early ad (15 spent) that is trending
C25_Witness ==
    /\ IsClassified /\ Tag = "trending"
    /\ Le(metrics.spend, R(20))
    /\ NumConfidentlyFailing > 0

\* C27 as stated: an entity whose recommendation is Kill or Starving is
\* never tagged winner or trending.
C27_Original ==
    (IsClassified /\ recommendation.action \in {"Kill", "Starving"}) => Tag = "null"

\* C28 as stated: whenever purchases >= 1 and ROAS >= 1.0 the action is not
\* Kill.
C28_Original ==
    (Evaluated /\ Ge(metrics.purchases, R(1)) /\ Ge(metrics.roas, R(1)))
        => recommendation.action # "Kill"

\* C29 as stated: whenever a KPI result for hookRate or holdRate is present,
\* the derived metric is non-null and the result's value equals it.
C29_Original ==
    Scored =>
        \A i \in 1..KpiCount :
            adKpis.list[i].benchmark.key \in {"hookRate", "holdRate"} =>
                /\ ~IsNull(Field(metrics, adKpis.list[i].benchmark.key))
                /\ adKpis.list[i].value = Field(metrics, adKpis.list[i].benchmark.key)

\* the sample size behind the interval of a metric
SampleSize(key) ==
    CASE key \in {"ctr", "hookRate", "cpm"}  -> metrics.impressions
      [] key \in {"cvr", "atcRate", "cpc"}   -> metrics.linkClicks
      [] key = "atcToPurchase"               -> metrics.addToCart
      [] key = "holdRate"                    -> metrics.video3sViews
      [] key \in {"cpa", "aov"}              -> metrics.purchases
      [] key = "frequency"                   -> metrics.reach

\* C22 as stated: getMetricCI returns the degenerate interval (0, 0, 0,
\* "none") whenever the sample size of the metric is zero, and for an
\* unknown key.
C22_Original ==
    Scored =>
        /\ \A i \in 1..KpiCount :
              IsZero(SampleSize(adKpis.list[i].benchmark.key))
                  => adKpis.list[i].ci = DegenerateCI
        /\ IsZero(SampleSize("aov")) => getMetricCI("aov", metrics) = DegenerateCI
        /\ getMetricCI("roas", metrics) = DegenerateCI

\* C21: for a snapshot without data computeMetrics returns every numeric
\* field 0 with hookRate and holdRate null, and evaluateKpis,
\* getRecommendation and classifyAd return on it for any price and parent
\* spend: the action is Starving and there is no winner / trending tag.
C21_EmptySnapshot ==
    /\ Computed =>
          /\ \A f \in NumericFields : IsZero(metrics[f])
          /\ IsNull(metrics.hookRate) /\ IsNull(metrics.holdRate)
    /\ pc \in {"done", "scored", "classified"} =>
          /\ recommendation.action = "Starving"
          /\ Len(recommendation.reasoning) = 1
    /\ pc \in {"scored", "classified"} =>
          /\ KeysOf(adKpis.list) = NonVideoKeys
          /\ \A i \in 1..KpiCount : adKpis.list[i].ci = DegenerateCI
    /\ IsClassified => Tag = "null"

\* the empty snapshot classified under a NaN price and a campaign spend
C21_Witness ==
    /\ IsClassified
    /\ raw = EmptySnapshot
    /\ IsNaN(frontEndPrice) /\ campaignSpend = R(2000)
    /\ Tag = "null" /\ recommendation.action = "Starving"

Ordered(ci) ==
    /\ Le(R(0), ci.lower) /\ Le(ci.lower, ci.center) /\ Le(ci.center, ci.upper)

\* C23: for 0 <= successes <= trials and trials > 0 wilsonScoreInterval
\* returns 0 <= lower <= center <= upper <= 100; for total >= 0 and count >
\* 0 monetaryCI returns 0 <= lower <= center <= upper.
C23_WellFormed ==
    (probe.set /\ probe.scored /\ Gt(probe.size, R(0))) =>
        /\ Ordered(probe.ci)
        /\ probe.kind = "proportion" => Le(probe.ci.upper, R(100))

\* a total over a count of 1: the lower bound is the floor
C23_Witness ==
    /\ probe.set /\ probe.scored
    /\ probe.kind = "monetary"
    /\ probe.size = R(1) /\ probe.amount = R(300)
    /\ probe.ci.lower = R(0) /\ probe.ci.center = R(300) /\ probe.ci.upper = R(888)

\* the result of evaluating the i-th ad of the batch alone
Alone(i) == classifyAd(computeMetrics(batch.ads[i].raw), frontEndPrice, campaignSpend)

C30_Original ==
    sync.set =>
        /\ sync.ended.set => sync.ended.trigger = sync.ended.sync
        /\ sync.stopped.set => sync.stopped.trigger = sync.stopped.interval
        /\ Cardinality(sync.intervals) <= 1

====
